---- MODULE Spec2Model ----
(***************************************************************************)
(* A model of server.go of sshkeycheck: the authentication callbacks that  *)
(* harvest the public keys a client offers, the process-wide registry      *)
(* `sessions`, and serve(): the per-connection loop that accepts session   *)
(* channels, writes the key report and waits on reqLock for a pty/shell    *)
(* request or the 30 second timer.                                         *)
(*                                                                         *)
(* Goroutines are interleaved at the granularity of their shared accesses: *)
(* serve's main goroutine (pc), one request goroutine per accepted channel *)
(* (reqPc), and one timer per accepted channel (timeout).  The client is   *)
(* the environment: it offers keys, opens channels, sends channel requests *)
(* and closes the connection.                                              *)
(***************************************************************************)
EXTENDS Naturals, Sequences, FiniteSets

(* ------------------------------ bounds -------------------------------- *)
\* Connections served concurrently.
NumConns == 2
\* Channels opened by clients in total.
MaxChans == 2
\* Keys one client offers in the specification of the key audit.
MaxAuditKeys == 2
\* Inputs of the clients in total: connections made, keys offered, channels
\* opened and channel requests sent.
MaxInputs == 4

Conns == 1..NumConns
Chans == 1..MaxChans

(* --------------------------- program constants ------------------------ *)
KeyAlgoRSA == "ssh-rsa"
KeyAlgoDSA == "ssh-dss"
KeyAlgoECDSA256 == "ecdsa-sha2-nistp256"
\* The length below which an RSA key is weak (server.go:122).
WeakBits == 2048

KeyTypes == {KeyAlgoRSA, KeyAlgoDSA, KeyAlgoECDSA256}
\* Bit lengths of the keys offered; 0 stands for a key whose length cannot
\* be derived (BitLen() fails on it).
BitLens == {0, 256, 1024, 2047, 2048}

\* Key material as the client offers it: its algorithm, the bit length
\* BitLen() derives from it, and whether the static blacklist lists it.
AllKeys == [type : KeyTypes, bitlen : BitLens, listed : BOOLEAN]

\* The keys the clients of the full system draw from.
KeyPool ==
  { [type |-> KeyAlgoRSA, bitlen |-> 1024, listed |-> FALSE],
    [type |-> KeyAlgoDSA, bitlen |-> 1024, listed |-> TRUE] }

ChannelTypes == {"session", "direct-tcpip"}
ReqTypes == {"shell", "pty-req", "auth-agent-req@openssh.com", "x11-req", "env"}
\* The requests the clients send: every type wanting a reply, and one
\* that wants none.
Requests == [type : ReqTypes, wantReply : {TRUE}]
            \cup [type : {"env"}, wantReply : {FALSE}]

VARIABLES
  sessions,   \* sessions.keys: session id -> sequence of *publicKey
  pc,         \* serve's main goroutine, per connection
  connOpen,   \* the client has not closed the connection
  offered,    \* history: the key material the client offered, in order
  denied,     \* history: number of authentication attempts denied
  admitted,   \* the authentication method that admitted the connection
  keys,       \* serve's local `keys` (line 44)
  chans,      \* new channels delivered to serve and not yet ranged over
  cur,        \* the channel of the current loop iteration (0: none)
  nextCh,     \* number of channels opened so far
  chConn,     \* channel -> its connection (0: not opened)
  chType,     \* channel -> its channel type
  chState,    \* "none", "pending", "rejected", "failed", "open", "closed"
  agentFwd,   \* per channel (line 64)
  x11,        \* per channel (line 64)
  reqLock,    \* per channel: "none", "locked", "unlocked"
  timeout,    \* per channel: "none", "armed", "fired", "done", "stopped"
  inq,        \* per channel: requests sent and not yet received
  reqPc,      \* request goroutine: "none", "recv", "reply", "exited"
  reqCur,     \* the request being handled, with its ok
  replies,    \* history per channel: the replies sent, in order
  burst,      \* history per channel: a pty/shell request opened the latch
              \* with an agent-forwarding request queued right behind it
  handled,    \* history per channel: the forwarding requests handled
              \* before (early) and after (late) the latch was resolved
  inputs,     \* number of client inputs so far
  local,      \* per channel: rows, blacklisted, dsa, weak of the iteration
  trace,      \* history per channel: the writes, the Lock and the Close
  wfail,      \* history per channel: a channel.Write returned an error
  unlocks,    \* history per channel: number of reqLock.Unlock() calls
  fatal       \* reqLock.Unlock() of an unlocked mutex happened

connVars == <<pc, connOpen, offered, denied, admitted, keys, chans, cur>>
chanVars == <<nextCh, chConn, chType, chState, agentFwd, x11, reqLock, timeout,
              local, trace, wfail, unlocks, fatal>>
reqVars == <<inq, reqPc, reqCur, replies, burst, handled, inputs>>
vars == <<sessions, connVars, chanVars, reqVars>>

(* ------------------------------ helpers ------------------------------- *)
\* string(conn.SessionID()): the exchange hash of the connection's first key
\* exchange, one value per connection.
SessionID(c) == c

\* sessions.keys[sid], the nil slice when there is no entry.
Lookup(m, sid) == IF sid \in DOMAIN m THEN m[sid] ELSE <<>>

\* m[sid] = v
Store(m, sid, v) == [s \in DOMAIN m \cup {sid} |-> IF s = sid THEN v ELSE m[s]]

\* A cleanup that empties the registry.
DeleteAll(m, sid) == [s \in {} |-> <<>>]

\* delete(m, sid)
Delete(m, sid) == [s \in DOMAIN m \ {sid} |-> m[s]]

\* The key material of a sequence of *publicKey.
Material(ks) == [i \in 1..Len(ks) |-> ks[i].key]

(* ------------------------ authentication callbacks -------------------- *)
\* A publicKeyCallback that replaces the entry instead of appending to it.
RecordKeyOverwrite(m, sid, k) ==
  Store(m, sid, <<[key |-> k, blacklisted |-> FALSE]>>)

\* A publicKeyCallback that puts the new key in front of the entry.
RecordKeyPrepend(m, sid, k) ==
  Store(m, sid, <<[key |-> k, blacklisted |-> FALSE]>> \o Lookup(m, sid))

\* publicKeyCallback's effect on sessions.keys (lines 171-174).
RecordKey(m, sid, k) ==
  Store(m, sid, Append(Lookup(m, sid), [key |-> k, blacklisted |-> FALSE]))

\* A publicKeyCallback that accepts the key.
publicKeyCallbackAccepts(c, k) == [perms |-> "nil", err |-> "nil"]

\* publicKeyCallback's return value (line 177).
publicKeyCallback(c, k) == [perms |-> "nil", err |-> "error"]

\* keyboardInteractiveCallback's return value (line 184); it issues no
\* challenge.
keyboardInteractiveCallback(c) == [perms |-> "nil", err |-> "nil", challenges |-> 0]

\* The loop iteration's locals before the audit loop has run (lines 107-108).
NoLocals == [rows |-> <<>>, blacklisted |-> FALSE, dsa |-> FALSE, weak |-> FALSE]

\* No forwarding request has been handled.
NoneHandled == [early |-> {}, late |-> {}]

\* The request goroutine holds no request.
NoRequest == [type |-> "none", wantReply |-> FALSE, ok |-> FALSE]

Init ==
  /\ sessions = <<>>
  /\ pc = [c \in Conns |-> "idle"]
  /\ connOpen = [c \in Conns |-> TRUE]
  /\ offered = [c \in Conns |-> <<>>]
  /\ denied = [c \in Conns |-> 0]
  /\ admitted = [c \in Conns |-> "none"]
  /\ keys = [c \in Conns |-> <<>>]
  /\ chans = [c \in Conns |-> <<>>]
  /\ cur = [c \in Conns |-> 0]
  /\ nextCh = 0
  /\ chConn = [ch \in Chans |-> 0]
  /\ chType = [ch \in Chans |-> "none"]
  /\ chState = [ch \in Chans |-> "none"]
  /\ agentFwd = [ch \in Chans |-> FALSE]
  /\ x11 = [ch \in Chans |-> FALSE]
  /\ reqLock = [ch \in Chans |-> "none"]
  /\ timeout = [ch \in Chans |-> "none"]
  /\ inq = [ch \in Chans |-> <<>>]
  /\ reqPc = [ch \in Chans |-> "none"]
  /\ reqCur = [ch \in Chans |-> NoRequest]
  /\ replies = [ch \in Chans |-> <<>>]
  /\ burst = [ch \in Chans |-> FALSE]
  /\ handled = [ch \in Chans |-> NoneHandled]
  /\ inputs = 0
  /\ local = [ch \in Chans |-> NoLocals]
  /\ trace = [ch \in Chans |-> <<>>]
  /\ wfail = [ch \in Chans |-> FALSE]
  /\ unlocks = [ch \in Chans |-> 0]
  /\ fatal = FALSE

\* A client connects and serve(config, nConn) is started for the connection
\* (connections are numbered in the order they are made).
Connect(c) ==
  /\ pc[c] = "idle"
  /\ IF c = 1 THEN TRUE ELSE pc[c - 1] # "idle"
  /\ inputs < MaxInputs
  /\ inputs' = inputs + 1
  /\ pc' = [pc EXCEPT ![c] = "handshake"]
  /\ UNCHANGED <<sessions, connOpen, offered, denied, admitted, keys, chans,
                 cur, chanVars, inq, reqPc, reqCur, replies, burst, handled>>

\* ssh.NewServerConn (line 27), one public-key attempt: the client offers k,
\* the library calls publicKeyCallback and admits the connection iff the
\* callback returns no error.
OfferKey(c, k) ==
  /\ pc[c] = "handshake"
  /\ inputs < MaxInputs
  /\ inputs' = inputs + 1
  /\ LET r == publicKeyCallback(c, k)
     IN /\ sessions' = RecordKey(sessions, SessionID(c), k)
        /\ offered' = [offered EXCEPT ![c] = Append(@, k)]
        /\ IF r.err = "nil"
           THEN /\ admitted' = [admitted EXCEPT ![c] = "publickey"]
                /\ pc' = [pc EXCEPT ![c] = "snapshot"]
                /\ UNCHANGED denied
           ELSE /\ denied' = [denied EXCEPT ![c] = @ + 1]
                /\ UNCHANGED <<admitted, pc>>
  /\ UNCHANGED <<connOpen, keys, chans, cur, chanVars, inq, reqPc, reqCur,
                 replies, burst, handled>>

\* ssh.NewServerConn (line 27), the keyboard-interactive attempt: the
\* library calls keyboardInteractiveCallback; no error admits the
\* connection, NewServerConn returns and serve goes on at line 33.
KeyboardInteractive(c) ==
  /\ pc[c] = "handshake"
  /\ LET r == keyboardInteractiveCallback(c)
     IN IF r.err = "nil"
        THEN /\ admitted' = [admitted EXCEPT ![c] = "keyboard-interactive"]
             /\ pc' = [pc EXCEPT ![c] = "snapshot"]
             /\ UNCHANGED denied
        ELSE /\ denied' = [denied EXCEPT ![c] = @ + 1]
             /\ UNCHANGED <<admitted, pc>>
  /\ UNCHANGED <<sessions, connOpen, offered, keys, chans, cur, chanVars, reqVars>>

\* The client gives up during the handshake: NewServerConn returns an error
\* and serve returns at line 30, before the deferred cleanup is set up.
HandshakeFail(c) ==
  /\ pc[c] = "handshake"
  /\ pc' = [pc EXCEPT ![c] = "done"]
  /\ connOpen' = [connOpen EXCEPT ![c] = FALSE]
  /\ UNCHANGED <<sessions, offered, denied, admitted, keys, chans, cur,
                 chanVars, reqVars>>

\* Lines 43-45: keys := sessions.keys[string(conn.SessionID())].
Snapshot(c) ==
  /\ pc[c] = "snapshot"
  /\ keys' = [keys EXCEPT ![c] = Lookup(sessions, SessionID(c))]
  /\ pc' = [pc EXCEPT ![c] = "loop"]
  /\ UNCHANGED <<sessions, connOpen, offered, denied, admitted, chans, cur,
                 chanVars, reqVars>>

(* ------------------------------ the client ---------------------------- *)
\* The client opens a channel of type t on its authenticated connection; the
\* library delivers it on chans.
ClientOpenChannel(c, t) ==
  /\ admitted[c] # "none"
  /\ connOpen[c]
  /\ nextCh < MaxChans
  /\ inputs < MaxInputs
  /\ inputs' = inputs + 1
  /\ LET ch == nextCh + 1
     IN /\ nextCh' = ch
        /\ chConn' = [chConn EXCEPT ![ch] = c]
        /\ chType' = [chType EXCEPT ![ch] = t]
        /\ chState' = [chState EXCEPT ![ch] = "pending"]
        /\ chans' = [chans EXCEPT ![c] = Append(@, ch)]
  /\ UNCHANGED <<sessions, pc, connOpen, offered, denied, admitted, keys, cur,
                 agentFwd, x11, reqLock, timeout, local, trace, wfail,
                 unlocks, fatal, inq, reqPc, reqCur, replies, burst, handled>>

\* The client sends request r on an accepted channel that the server has not
\* closed.
ClientRequest(ch, r) ==
  /\ chState[ch] = "open"
  /\ connOpen[chConn[ch]]
  /\ inputs < MaxInputs
  /\ inputs' = inputs + 1
  /\ inq' = [inq EXCEPT ![ch] = Append(@, r)]
  /\ UNCHANGED <<sessions, connVars, chanVars, reqPc, reqCur, replies, burst, handled>>

\* The client closes an authenticated connection: chans and every request
\* stream of the connection are closed, and writes to it fail from now on.
ClientClose(c) ==
  /\ admitted[c] # "none"
  /\ connOpen[c]
  /\ connOpen' = [connOpen EXCEPT ![c] = FALSE]
  /\ UNCHANGED <<sessions, pc, offered, denied, admitted, keys, chans, cur,
                 chanVars, reqVars>>

\* The request stream of ch is closed: the server closed the channel (the
\* peer's close is taken to follow at once) or the connection is closed.
InClosed(ch) == chState[ch] = "closed" \/ ~connOpen[chConn[ch]]

(* ----------------------- serve: the channel loop ---------------------- *)
\* A loop without the `continue` of line 55: the channel that is not a
\* session is rejected and then served like an accepted one.
RejectChannelFallsThrough(c) ==
  /\ pc[c] = "loop"
  /\ chans[c] # <<>>
  /\ LET n == Head(chans[c])
     IN /\ chType[n] # "session"
        /\ chState' = [chState EXCEPT ![n] = "rejected"]
        /\ cur' = [cur EXCEPT ![c] = n]
        /\ reqLock' = [reqLock EXCEPT ![n] = "locked"]
        /\ timeout' = [timeout EXCEPT ![n] = "armed"]
        /\ reqPc' = [reqPc EXCEPT ![n] = "recv"]
  /\ chans' = [chans EXCEPT ![c] = Tail(@)]
  /\ pc' = [pc EXCEPT ![c] = "welcome"]
  /\ UNCHANGED <<sessions, connOpen, offered, denied, admitted, keys, nextCh,
                 chConn, chType, agentFwd, x11, local, trace, wfail, unlocks,
                 fatal, inq, reqCur, replies, burst, handled, inputs>>

\* Lines 53-56: a channel that is not a session is rejected.
RejectChannel(c) ==
  /\ pc[c] = "loop"
  /\ chans[c] # <<>>
  /\ LET n == Head(chans[c])
     IN /\ chType[n] # "session"
        /\ chState' = [chState EXCEPT ![n] = "rejected"]
  /\ chans' = [chans EXCEPT ![c] = Tail(@)]
  /\ UNCHANGED <<sessions, pc, connOpen, offered, denied, admitted, keys, cur,
                 nextCh, chConn, chType, agentFwd, x11, reqLock, timeout,
                 local, trace, wfail, unlocks, fatal, reqVars>>

\* Lines 58-62: n.Accept() fails (the connection is gone) and the loop goes
\* on with the next channel.
AcceptFails(c) ==
  /\ pc[c] = "loop"
  /\ chans[c] # <<>>
  /\ ~connOpen[c]
  /\ LET n == Head(chans[c])
     IN /\ chType[n] = "session"
        /\ chState' = [chState EXCEPT ![n] = "failed"]
  /\ chans' = [chans EXCEPT ![c] = Tail(@)]
  /\ UNCHANGED <<sessions, pc, connOpen, offered, denied, admitted, keys, cur,
                 nextCh, chConn, chType, agentFwd, x11, reqLock, timeout,
                 local, trace, wfail, unlocks, fatal, reqVars>>

\* Lines 58-94: the channel is accepted; agentFwd and x11 start false,
\* reqLock is locked, the 30 second timer is armed and the request
\* goroutine is started.
AcceptChannel(c) ==
  /\ pc[c] = "loop"
  /\ chans[c] # <<>>
  /\ connOpen[c]
  /\ LET n == Head(chans[c])
     IN /\ chType[n] = "session"
        /\ chState' = [chState EXCEPT ![n] = "open"]
        /\ cur' = [cur EXCEPT ![c] = n]
        /\ agentFwd' = [agentFwd EXCEPT ![n] = FALSE]
        /\ x11' = [x11 EXCEPT ![n] = FALSE]
        /\ reqLock' = [reqLock EXCEPT ![n] = "locked"]
        /\ timeout' = [timeout EXCEPT ![n] = "armed"]
        /\ reqPc' = [reqPc EXCEPT ![n] = "recv"]
  /\ chans' = [chans EXCEPT ![c] = Tail(@)]
  /\ pc' = [pc EXCEPT ![c] = "welcome"]
  /\ UNCHANGED <<sessions, connOpen, offered, denied, admitted, keys, nextCh,
                 chConn, chType, local, trace, wfail, unlocks, fatal, inq, reqCur,
                 replies, burst, handled, inputs>>

\* Line 48 ends (chans is closed and drained) and the deferred function of
\* lines 33-38 runs: the registry entry is deleted and the connection closed.
ServeReturn(c) ==
  /\ pc[c] = "loop"
  /\ chans[c] = <<>>
  /\ ~connOpen[c]
  /\ sessions' = Delete(sessions, SessionID(c))
  /\ pc' = [pc EXCEPT ![c] = "done"]
  /\ UNCHANGED <<connOpen, offered, denied, admitted, keys, chans, cur,
                 chanVars, reqVars>>

(* ------------------------- the key audit (pure) ----------------------- *)
\* k.BitLen(): the derived length, or 0 and an error when it cannot be derived.
BitLen(k) == IF k.key.bitlen = 0 THEN [length |-> 0, err |-> TRUE]
             ELSE [length |-> k.key.bitlen, err |-> FALSE]

\* markBlacklistedKeys(keys): sets each key's blacklisted field from the
\* static blacklist.
markBlacklistedKeys(ks) ==
  [i \in 1..Len(ks) |-> [ks[i] EXCEPT !.blacklisted = ks[i].key.listed]]

\* Line 117.
IsDSA(k) == k.key.type = KeyAlgoDSA

\* A threshold that counts 2048 bits as weak.
IsWeakInclusive(length, type) == length <= WeakBits /\ type = KeyAlgoRSA

\* Line 122.
IsWeak(length, type) == length < WeakBits /\ type = KeyAlgoRSA

\* An audit that tests the blacklist first and the DSA type last.
IssuesDsaLast(k) ==
  LET length == BitLen(k).length
      i0 == "No known issues"
      i1 == IF k.blacklisted THEN "BLACKLISTED" ELSE i0
      i2 == IF IsWeak(length, k.key.type) THEN "WEAK KEY LENGTH" ELSE i1
      i3 == IF IsDSA(k) THEN "DSA KEY" ELSE i2
  IN i3

\* Lines 110-131: the issue of one key, by successive assignment.
Issues(k) ==
  LET length == BitLen(k).length
      i0 == "No known issues"
      i1 == IF IsDSA(k) THEN "DSA KEY" ELSE i0
      i2 == IF IsWeak(length, k.key.type) THEN "WEAK KEY LENGTH" ELSE i1
      i3 == IF k.blacklisted THEN "BLACKLISTED" ELSE i2
  IN i3

\* Line 133: the table row of one key (the fingerprint stands for the key).
Row(k) == [bits |-> BitLen(k).length, type |-> k.key.type,
           fingerprint |-> k.key, issues |-> Issues(k)]

\* An audit that derives the session flags from the issue shown in each row.
AuditFromRows(ks) ==
  [rows |-> [i \in 1..Len(ks) |-> Row(ks[i])],
   blacklisted |-> \E i \in 1..Len(ks) : Issues(ks[i]) = "BLACKLISTED",
   dsa |-> \E i \in 1..Len(ks) : Issues(ks[i]) = "DSA KEY",
   weak |-> \E i \in 1..Len(ks) : Issues(ks[i]) = "WEAK KEY LENGTH"]

\* Lines 107-134: the rows in the order of keys, and the three session flags.
Audit(ks) ==
  [rows |-> [i \in 1..Len(ks) |-> Row(ks[i])],
   blacklisted |-> \E i \in 1..Len(ks) : ks[i].blacklisted,
   dsa |-> \E i \in 1..Len(ks) : IsDSA(ks[i]),
   weak |-> \E i \in 1..Len(ks) : IsWeak(BitLen(ks[i]).length, ks[i].key.type)]

(* ------------------------ serve: the report steps --------------------- *)
\* channel.Write(msg) on the current channel of c: the write fails when the
\* connection is closed; its error is not looked at.
Write(c, ev) ==
  /\ trace' = [trace EXCEPT ![cur[c]] = Append(@, ev)]
  /\ wfail' = [wfail EXCEPT ![cur[c]] = @ \/ ~connOpen[c]]

\* Lines 96-98: markBlacklistedKeys(keys), which writes the blacklisted field
\* of the *publicKey objects the registry entry points to as well, and the
\* welcome message.
WriteWelcome(c) ==
  /\ pc[c] = "welcome"
  /\ keys' = [keys EXCEPT ![c] = markBlacklistedKeys(@)]
  /\ sessions' = IF SessionID(c) \in DOMAIN sessions
                 THEN Store(sessions, SessionID(c),
                            markBlacklistedKeys(sessions[SessionID(c)]))
                 ELSE sessions
  /\ Write(c, "welcome")
  /\ pc' = [pc EXCEPT ![c] = "table"]
  /\ UNCHANGED <<connOpen, offered, denied, admitted, chans, cur, nextCh,
                 chConn, chType, chState, agentFwd, x11, reqLock, timeout,
                 local, unlocks, fatal, reqVars>>

\* Lines 100-142: the audit loop and the write of the table.
WriteTable(c) ==
  /\ pc[c] = "table"
  /\ local' = [local EXCEPT ![cur[c]] = Audit(keys[c])]
  /\ Write(c, "table")
  /\ pc' = [pc EXCEPT ![c] = "blacklistMsg"]
  /\ UNCHANGED <<sessions, connOpen, offered, denied, admitted, keys, chans,
                 cur, nextCh, chConn, chType, chState, agentFwd, x11, reqLock,
                 timeout, unlocks, fatal, reqVars>>

\* `if flag { channel.Write(msg) }` at position at, going on at position to.
WriteIf(c, at, flag, ev, to) ==
  /\ pc[c] = at
  /\ IF flag THEN Write(c, ev) ELSE UNCHANGED <<trace, wfail>>
  /\ pc' = [pc EXCEPT ![c] = to]
  /\ UNCHANGED <<sessions, connOpen, offered, denied, admitted, keys, chans,
                 cur, nextCh, chConn, chType, chState, agentFwd, x11, reqLock,
                 timeout, local, unlocks, fatal, reqVars>>

\* Lines 144-146.
WriteBlacklistMsg(c) ==
  WriteIf(c, "blacklistMsg", local[cur[c]].blacklisted, "blacklistMsg", "dsaMsg")

\* Lines 148-150.
WriteDsaMsg(c) == WriteIf(c, "dsaMsg", local[cur[c]].dsa, "dsaMsg", "weakMsg")

\* Lines 152-154.
WriteWeakMsg(c) == WriteIf(c, "weakMsg", local[cur[c]].weak, "weakMsg", "lock")

\* A report that goes on without waiting for the mutex.
LatchWaitNoWait(c) ==
  /\ pc[c] = "lock"
  /\ reqLock' = [reqLock EXCEPT ![cur[c]] = "locked"]
  /\ trace' = [trace EXCEPT ![cur[c]] = Append(@, "lock")]
  /\ pc' = [pc EXCEPT ![c] = "agentMsg"]
  /\ UNCHANGED <<sessions, connOpen, offered, denied, admitted, keys, chans,
                 cur, nextCh, chConn, chType, chState, agentFwd, x11, timeout,
                 local, wfail, unlocks, fatal, reqVars>>

\* Line 156: reqLock.Lock() returns once the mutex is unlocked.
LatchWait(c) ==
  /\ pc[c] = "lock"
  /\ reqLock[cur[c]] = "unlocked"
  /\ reqLock' = [reqLock EXCEPT ![cur[c]] = "locked"]
  /\ trace' = [trace EXCEPT ![cur[c]] = Append(@, "lock")]
  /\ pc' = [pc EXCEPT ![c] = "agentMsg"]
  /\ UNCHANGED <<sessions, connOpen, offered, denied, admitted, keys, chans,
                 cur, nextCh, chConn, chType, chState, agentFwd, x11, timeout,
                 local, wfail, unlocks, fatal, reqVars>>

\* A report that tests x11 where it should test agentFwd.
WriteAgentMsgReadsX11(c) ==
  WriteIf(c, "agentMsg", x11[cur[c]], "agentMsg", "x11Msg")

\* Lines 157-159: agentFwd is read as the request goroutine left it.
WriteAgentMsg(c) == WriteIf(c, "agentMsg", agentFwd[cur[c]], "agentMsg", "x11Msg")

\* A report that tests agentFwd where it should test x11.
WriteX11MsgReadsAgentFwd(c) ==
  WriteIf(c, "x11Msg", agentFwd[cur[c]], "x11Msg", "close")

\* Lines 160-162.
WriteX11Msg(c) == WriteIf(c, "x11Msg", x11[cur[c]], "x11Msg", "close")

\* Line 165: channel.Close(), and the loop waits for the next channel.
ChannelClose(c) ==
  /\ pc[c] = "close"
  /\ chState' = [chState EXCEPT ![cur[c]] = "closed"]
  /\ trace' = [trace EXCEPT ![cur[c]] = Append(@, "close")]
  /\ cur' = [cur EXCEPT ![c] = 0]
  /\ pc' = [pc EXCEPT ![c] = "loop"]
  /\ UNCHANGED <<sessions, connOpen, offered, denied, admitted, keys, chans,
                 nextCh, chConn, chType, agentFwd, x11, reqLock, timeout,
                 local, wfail, unlocks, fatal, reqVars>>

(* ---------------------- the timer and the latch ----------------------- *)
\* reqLock.Unlock() on channel ch: unlocking an unlocked mutex is a fatal
\* error of the Go runtime.
Unlock(ch) ==
  /\ reqLock' = [reqLock EXCEPT ![ch] = "unlocked"]
  /\ unlocks' = [unlocks EXCEPT ![ch] = @ + 1]
  /\ fatal' = (fatal \/ reqLock[ch] # "locked")

\* A Stop() whose result is taken to be true always.
TimerStopAlways(t) == TRUE

\* A Stop() whose result is taken to be false always.
TimerStopNever(t) == FALSE

\* timeout.Stop(): true iff the call stops the timer, false if the timer has
\* already expired or been stopped.
TimerStop(t) == t = "armed"

\* The 30 seconds of line 67 elapse: the timer expires and its function is
\* started in its own goroutine.
TimerFire(ch) ==
  /\ timeout[ch] = "armed"
  /\ timeout' = [timeout EXCEPT ![ch] = "fired"]
  /\ UNCHANGED <<sessions, connVars, reqVars, nextCh, chConn, chType, chState,
                 agentFwd, x11, reqLock, local, trace, wfail, unlocks, fatal>>

\* A timer whose function returns without unlocking.
TimerFuncNoUnlock(ch) ==
  /\ timeout[ch] = "fired"
  /\ timeout' = [timeout EXCEPT ![ch] = "done"]
  /\ UNCHANGED <<sessions, connVars, reqVars, nextCh, chConn, chType, chState,
                 agentFwd, x11, reqLock, local, trace, wfail, unlocks, fatal>>

\* Line 67: func() { reqLock.Unlock() }.
TimerFunc(ch) ==
  /\ timeout[ch] = "fired"
  /\ timeout' = [timeout EXCEPT ![ch] = "done"]
  /\ Unlock(ch)
  /\ UNCHANGED <<sessions, connVars, reqVars, nextCh, chConn, chType, chState,
                 agentFwd, x11, local, trace, wfail>>

(* ------------------------ the request goroutine ----------------------- *)
\* The request types that set a forwarding flag (lines 84-87).
Forwarding == {"auth-agent-req@openssh.com", "x11-req"}

\* An ok that is true for the forwarding requests as well.
ReqOkForwarding(type) ==
  type \in {"shell", "pty-req", "auth-agent-req@openssh.com", "x11-req"}

\* Lines 71-76: ok for a request type.
ReqOk(type) == type \in {"shell", "pty-req"}

\* A request goroutine whose flags are declared outside the loop of line 48:
\* one agentFwd and one x11 for all the channels of the connection.
ReqHandleSharedFlags(ch) ==
  /\ reqPc[ch] = "recv"
  /\ inq[ch] # <<>>
  /\ LET req == Head(inq[ch])
         opens == req.type \in {"shell", "pty-req"} /\ TimerStop(timeout[ch])
     IN /\ reqCur' = [reqCur EXCEPT ![ch] =
                        [type |-> req.type, wantReply |-> req.wantReply,
                         ok |-> ReqOk(req.type)]]
        /\ IF opens
           THEN /\ timeout' = [timeout EXCEPT ![ch] = "stopped"]
                /\ Unlock(ch)
           ELSE UNCHANGED <<timeout, reqLock, unlocks, fatal>>
        /\ burst' = [burst EXCEPT ![ch] =
                       @ \/ (/\ opens
                             /\ Len(inq[ch]) > 1
                             /\ inq[ch][2].type = "auth-agent-req@openssh.com")]
        /\ handled' = [handled EXCEPT ![ch] =
                         IF req.type \notin Forwarding THEN @
                         ELSE IF unlocks[ch] = 0 /\ timeout[ch] = "armed"
                              THEN [@ EXCEPT !.early = @ \cup {req.type}]
                              ELSE [@ EXCEPT !.late = @ \cup {req.type}]]
        /\ agentFwd' = IF req.type = "auth-agent-req@openssh.com"
                       THEN [n \in Chans |-> agentFwd[n] \/ chConn[n] = chConn[ch]]
                       ELSE agentFwd
        /\ x11' = IF req.type = "x11-req"
                  THEN [n \in Chans |-> x11[n] \/ chConn[n] = chConn[ch]]
                  ELSE x11
  /\ inq' = [inq EXCEPT ![ch] = Tail(@)]
  /\ reqPc' = [reqPc EXCEPT ![ch] = "reply"]
  /\ UNCHANGED <<sessions, connVars, nextCh, chConn, chType, chState, local,
                 trace, wfail, replies, inputs>>

\* Lines 70-88: the next request is received and the switch is run.
ReqHandle(ch) ==
  /\ reqPc[ch] = "recv"
  /\ inq[ch] # <<>>
  /\ LET req == Head(inq[ch])
         opens == req.type \in {"shell", "pty-req"} /\ TimerStop(timeout[ch])
     IN /\ reqCur' = [reqCur EXCEPT ![ch] =
                        [type |-> req.type, wantReply |-> req.wantReply,
                         ok |-> ReqOk(req.type)]]
        /\ IF opens
           THEN /\ timeout' = [timeout EXCEPT ![ch] = "stopped"]
                /\ Unlock(ch)
           ELSE UNCHANGED <<timeout, reqLock, unlocks, fatal>>
        /\ burst' = [burst EXCEPT ![ch] =
                       @ \/ (/\ opens
                             /\ Len(inq[ch]) > 1
                             /\ inq[ch][2].type = "auth-agent-req@openssh.com")]
        /\ handled' = [handled EXCEPT ![ch] =
                         IF req.type \notin Forwarding THEN @
                         ELSE IF unlocks[ch] = 0 /\ timeout[ch] = "armed"
                              THEN [@ EXCEPT !.early = @ \cup {req.type}]
                              ELSE [@ EXCEPT !.late = @ \cup {req.type}]]
        /\ agentFwd' = IF req.type = "auth-agent-req@openssh.com"
                       THEN [agentFwd EXCEPT ![ch] = TRUE] ELSE agentFwd
        /\ x11' = IF req.type = "x11-req" THEN [x11 EXCEPT ![ch] = TRUE] ELSE x11
  /\ inq' = [inq EXCEPT ![ch] = Tail(@)]
  /\ reqPc' = [reqPc EXCEPT ![ch] = "reply"]
  /\ UNCHANGED <<sessions, connVars, nextCh, chConn, chType, chState, local,
                 trace, wfail, replies, inputs>>

\* Lines 90-92: the replies req.Reply(ok, nil) sends for request r: none
\* without WantReply.
Reply(r) == IF r.wantReply THEN <<r.ok>> ELSE <<>>

\* Lines 90-93: the reply is sent and the loop goes on to the next request.
ReqReply(ch) ==
  /\ reqPc[ch] = "reply"
  /\ replies' = [replies EXCEPT ![ch] = @ \o Reply(reqCur[ch])]
  /\ reqCur' = [reqCur EXCEPT ![ch] = NoRequest]
  /\ reqPc' = [reqPc EXCEPT ![ch] = "recv"]
  /\ UNCHANGED <<sessions, connVars, chanVars, inq, burst, handled, inputs>>

\* Line 70: the request stream is closed and drained; the goroutine ends.
ReqExit(ch) ==
  /\ reqPc[ch] = "recv"
  /\ inq[ch] = <<>>
  /\ InClosed(ch)
  /\ reqPc' = [reqPc EXCEPT ![ch] = "exited"]
  /\ UNCHANGED <<sessions, connVars, chanVars, inq, reqCur, replies, burst, handled, inputs>>

(* --------------------------- specifications --------------------------- *)
\* The steps of serve's main goroutine for connection c.
ServeStep(c) ==
  \/ Snapshot(c)
  \/ RejectChannel(c)
  \/ AcceptFails(c)
  \/ AcceptChannel(c)
  \/ ServeReturn(c)
  \/ WriteWelcome(c)
  \/ WriteTable(c)
  \/ WriteBlacklistMsg(c)
  \/ WriteDsaMsg(c)
  \/ WriteWeakMsg(c)
  \/ LatchWait(c)
  \/ WriteAgentMsg(c)
  \/ WriteX11Msg(c)
  \/ ChannelClose(c)

\* The steps of the goroutines of channel ch.
ChanStep(ch) ==
  \/ TimerFire(ch)
  \/ TimerFunc(ch)
  \/ ReqHandle(ch)
  \/ ReqReply(ch)
  \/ ReqExit(ch)

Next ==
  \/ \E c \in Conns : Connect(c)
  \/ \E c \in Conns, k \in KeyPool : OfferKey(c, k)
  \/ \E c \in Conns : KeyboardInteractive(c)
  \/ \E c \in Conns : HandshakeFail(c)
  \/ \E c \in Conns, t \in ChannelTypes : ClientOpenChannel(c, t)
  \/ \E ch \in Chans, r \in Requests : ClientRequest(ch, r)
  \/ \E c \in Conns : ClientClose(c)
  \/ \E c \in Conns : ServeStep(c)
  \/ \E ch \in Chans : ChanStep(ch)

Spec == Init /\ [][Next]_vars

\* The goroutines of the server are scheduled and its timers fire; the
\* clients are free to do nothing.
Fairness ==
  /\ \A c \in Conns : WF_vars(ServeStep(c))
  /\ \A ch \in Chans : /\ WF_vars(TimerFire(ch))
                        /\ WF_vars(TimerFunc(ch))
                        /\ WF_vars(ReqHandle(ch) \/ ReqReply(ch) \/ ReqExit(ch))

FairSpec == Spec /\ Fairness

\* The key audit on every key: one client offers up to MaxAuditKeys keys of
\* any kind and opens a session channel; serve writes the report.
NextAudit ==
  \/ Connect(1)
  \/ \E k \in AllKeys : Len(offered[1]) < MaxAuditKeys /\ OfferKey(1, k)
  \/ KeyboardInteractive(1)
  \/ ClientOpenChannel(1, "session")
  \/ Snapshot(1)
  \/ AcceptChannel(1)
  \/ WriteWelcome(1)
  \/ WriteTable(1)
  \/ WriteBlacklistMsg(1)
  \/ WriteDsaMsg(1)
  \/ WriteWeakMsg(1)
  \/ LatchWait(1)
  \/ WriteAgentMsg(1)
  \/ WriteX11Msg(1)
  \/ ChannelClose(1)
  \/ \E ch \in Chans : TimerFire(ch) \/ TimerFunc(ch)

SpecAudit == Init /\ [][NextAudit]_vars

(* ======================================================================= *)
(*                               The claims                                *)
(* ======================================================================= *)
\* serve has returned from ssh.NewServerConn without an error.
Admitted(c) == admitted[c] # "none"

\* serve has read its snapshot of the registry (line 44).
PastSnapshot(c) == Admitted(c) /\ pc[c] # "snapshot"

\* C1: every public-key attempt is denied with no permissions, whatever the
\* key and whatever was offered before; the keyboard-interactive callback
\* succeeds without a challenge; so a connection is admitted only by the
\* keyboard-interactive method, after all the keys it offered were denied.
C1_DeniedThenFallback ==
  \A c \in Conns :
    /\ \A k \in AllKeys : /\ publicKeyCallback(c, k).err # "nil"
                          /\ publicKeyCallback(c, k).perms = "nil"
    /\ keyboardInteractiveCallback(c).err = "nil"
    /\ keyboardInteractiveCallback(c).challenges = 0
    /\ denied[c] = Len(offered[c])
    /\ admitted[c] \in {"none", "keyboard-interactive"}
    /\ pc[c] \notin {"idle", "handshake", "done"}
         => admitted[c] = "keyboard-interactive"

\* A connection was admitted after two keys were offered and denied.
C1_Witness ==
  \E c \in Conns : /\ Len(offered[c]) = 2
                    /\ denied[c] = 2
                    /\ admitted[c] = "keyboard-interactive"

C3_NoEntryAfterReturn ==
  \A c \in Conns : pc[c] = "done" => SessionID(c) \notin DOMAIN sessions

\* The elements of a sequence.
Range(q) == {q[i] : i \in 1..Len(q)}

\* The request types that open the latch.
PtyShell == {"shell", "pty-req"}

\* C4: the wait on reqLock of every accepted channel returns: a waiting
\* report is never stranded (the mutex is unlocked, or the timer is still
\* armed or its function about to unlock), the mutex is open as soon as a
\* shell or pty-req request is processed (unless the timer has fired, and
\* then its function opens it), and a report that waits does pass the Lock.
C4_LatchWaitReturns ==
  /\ [](\A c \in Conns :
          pc[c] = "lock" => \/ reqLock[cur[c]] = "unlocked"
                            \/ timeout[cur[c]] \in {"armed", "fired"})
  /\ [](\A ch \in Chans :
          reqPc[ch] = "reply" /\ reqCur[ch].type \in PtyShell
            => unlocks[ch] = 1 \/ timeout[ch] = "fired")
  /\ \A c \in Conns : (pc[c] = "lock") ~> (pc[c] = "agentMsg")

\* The report has passed the Lock on the timer alone: the connection was
\* closed, the request goroutine has ended and no request opened the latch.
C4_Witness ==
  \E c \in Conns :
    /\ pc[c] = "agentMsg"
    /\ timeout[cur[c]] = "done"
    /\ reqPc[cur[c]] = "exited"

\* C5: the latch of a channel is opened exactly once, by the request that
\* stops the timer or by the timer, never by both and never twice: reqLock
\* is never unlocked while unlocked, it has been unlocked once when the
\* timer was stopped or its function has run, and not at all before.
C5_LatchOpensOnce ==
  /\ ~fatal
  /\ \A ch \in Chans :
       /\ unlocks[ch] = IF timeout[ch] \in {"done", "stopped"} THEN 1 ELSE 0
       /\ reqLock[ch] = "unlocked" => unlocks[ch] = 1

\* A pty-req was handled after the timer had expired and before the
\* timer's function unlocked: the request did not unlock.
C5_Witness ==
  \E ch \in Chans :
    /\ timeout[ch] = "fired"
    /\ reqPc[ch] = "reply"
    /\ reqCur[ch].type = "pty-req"
    /\ unlocks[ch] = 0

\* C6 as stated: when a pty-req opened the latch with an auth-agent-req
\* queued right behind it, the report of the channel has the
\* agent-forwarding warning, in every interleaving.
C6_BurstAlwaysWarned ==
  \A ch \in Chans :
    burst[ch] /\ "close" \in Range(trace[ch]) => "agentMsg" \in Range(trace[ch])

\* C6 as amended: in such a burst the latch is resolved by the pty-req;
\* the report writes the agent-forwarding warning exactly when agentFwd is
\* set at the time it reads it, that is when the request goroutine handled
\* the auth-agent-req before the read; a warning is written only after the
\* Lock returned and only for a flag a handled request has set.
C6_WarningIffHandledBeforeRead ==
  /\ [](\A ch \in Chans :
          /\ burst[ch] => timeout[ch] = "stopped" /\ unlocks[ch] = 1
          /\ "agentMsg" \in Range(trace[ch])
               => "lock" \in Range(trace[ch]) /\ agentFwd[ch]
          /\ "x11Msg" \in Range(trace[ch])
               => "lock" \in Range(trace[ch]) /\ x11[ch])
  /\ [][\A c \in Conns :
          pc[c] = "agentMsg" /\ pc'[c] = "x11Msg"
            => trace'[cur[c]] = IF agentFwd[cur[c]]
                                THEN Append(trace[cur[c]], "agentMsg")
                                ELSE trace[cur[c]]]_vars

\* A burst in which the auth-agent-req was handled before the report read
\* the flag: the warning is in the report.
C6_Witness ==
  \E ch \in Chans : burst[ch] /\ "agentMsg" \in Range(trace[ch])

\* The step of ReqReply on channel ch.
ReplyStep(ch) == reqPc[ch] = "reply" /\ reqPc'[ch] = "recv"

\* What a request of the goroutine is replied when the types in yes are
\* acknowledged.
Replied(r, yes) == IF r.wantReply THEN <<r.type \in yes>> ELSE <<>>

\* C7 as stated: a request with WantReply gets exactly one reply, true for
\* shell, pty-req, auth-agent-req@openssh.com and x11-req and false for
\* any other type; a request without WantReply gets none.
C7_ForwardingAcknowledged ==
  [][\A ch \in Chans :
       ReplyStep(ch)
         => replies'[ch] = replies[ch] \o
              Replied(reqCur[ch], PtyShell \cup {"auth-agent-req@openssh.com", "x11-req"})]_vars

\* C7 as amended: a request with WantReply gets exactly one reply before
\* the next request is received, true for shell and pty-req and false for
\* every other type, auth-agent-req@openssh.com and x11-req included; a
\* request without WantReply gets none; no other step sends a reply.
C7_OnlyShellPtyAcknowledged ==
  [][\A ch \in Chans :
       /\ ReplyStep(ch)
            => replies'[ch] = replies[ch] \o Replied(reqCur[ch], PtyShell)
       /\ ~ReplyStep(ch) => replies'[ch] = replies[ch]
       /\ Len(inq'[ch]) < Len(inq[ch])
            => reqCur[ch] = NoRequest /\ reqPc'[ch] = "reply"]_vars

\* An auth-agent-req that wanted a reply was handled and the only reply
\* sent on the channel is false.
C7_Witness ==
  \E ch \in Chans :
    agentFwd[ch] /\ reqPc[ch] = "recv" /\ replies[ch] = <<FALSE>>

\* The issue of a key by priority: blacklisted, DSA, RSA under 2048 bits.
Priority(key, bits) ==
  IF key.listed THEN "BLACKLISTED"
  ELSE IF key.type = KeyAlgoDSA THEN "DSA KEY"
  ELSE IF key.type = KeyAlgoRSA /\ bits < 2048 THEN "WEAK KEY LENGTH"
  ELSE "No known issues"

\* C8: the issue in the row of every key follows the priority blacklisted >
\* DSA > RSA shorter than 2048 bits > none, the length being the one
\* BitLen() reports and the row shows.
C8_IssuePriority ==
  \A ch \in Chans :
    LET rows == local[ch].rows
    IN /\ "table" \in Range(trace[ch]) => Len(rows) = Len(offered[chConn[ch]])
       /\ \A i \in 1..Len(rows) :
            rows[i].issues = Priority(offered[chConn[ch]][i], rows[i].bits)

\* The table has the row of a blacklisted DSA key, which reads BLACKLISTED.
C8_Witness ==
  \E ch \in Chans :
    \E i \in 1..Len(local[ch].rows) :
      /\ local[ch].rows[i].type = KeyAlgoDSA
      /\ offered[chConn[ch]][i].listed
      /\ local[ch].rows[i].issues = "BLACKLISTED"

\* C9: an RSA key off the blacklist has no issue at exactly 2048 bits and a
\* weak length at 2047 bits, and a key that is not RSA never has a weak
\* length, whatever its length.
C9_WeakThreshold ==
  \A ch \in Chans :
    \A i \in 1..Len(local[ch].rows) :
      LET r == local[ch].rows[i]
          k == offered[chConn[ch]][i]
      IN /\ r.type = KeyAlgoRSA /\ ~k.listed /\ r.bits = 2048
              => r.issues = "No known issues"
         /\ r.type = KeyAlgoRSA /\ ~k.listed /\ r.bits = 2047
              => r.issues = "WEAK KEY LENGTH"
         /\ r.type # KeyAlgoRSA => r.issues # "WEAK KEY LENGTH"

\* A table with an RSA key of 2047 bits, weak, and one of 2048 bits, with
\* no issue.
C9_Witness ==
  \E ch \in Chans :
    LET rows == local[ch].rows
    IN /\ Len(rows) = 2
       /\ rows[1].type = KeyAlgoRSA /\ rows[1].bits = 2047
       /\ rows[1].issues = "WEAK KEY LENGTH"
       /\ rows[2].type = KeyAlgoRSA /\ rows[2].bits = 2048
       /\ rows[2].issues = "No known issues"

\* The order of the report of a channel.
Order == <<"welcome", "table", "blacklistMsg", "dsaMsg", "weakMsg", "lock",
           "agentMsg", "x11Msg", "close">>

\* The place of a step in the order.
Rank(e) == CHOOSE i \in 1..Len(Order) : Order[i] = e

\* The place the report of channel ch has come to.
Pos(ch) == IF chState[ch] = "closed" THEN Len(Order) + 1
           ELSE IF chState[ch] = "open" THEN Rank(pc[chConn[ch]])
           ELSE 1

\* Whether the report of channel ch has step e.
Included(ch, e) ==
  CASE e = "blacklistMsg" -> local[ch].blacklisted
    [] e = "dsaMsg" -> local[ch].dsa
    [] e = "weakMsg" -> local[ch].weak
    [] e \in {"agentMsg", "x11Msg"} -> e \in Range(trace[ch])
    [] OTHER -> TRUE

\* The steps the report of channel ch has made so far, in order.
Expected(ch) ==
  LET Made(e) == Rank(e) < Pos(ch) /\ Included(ch, e)
  IN SelectSeq(Order, Made)

\* C10: the report of a channel is written in the order welcome, table (a
\* row per harvested key, in harvest order), blacklist, DSA and weak-length
\* paragraphs (each iff flagged), the Lock, agent-forwarding and x11
\* warnings (each only if flagged), Close; no forwarding warning is written
\* before the latch has opened, and the steps before the Lock do not wait.
C10_ReportOrder ==
  /\ \A ch \in Chans :
       /\ trace[ch] = Expected(ch)
       /\ "table" \in Range(trace[ch])
            => [i \in 1..Len(local[ch].rows) |-> local[ch].rows[i].fingerprint]
                 = offered[chConn[ch]]
       /\ "agentMsg" \in Range(trace[ch]) => agentFwd[ch] /\ unlocks[ch] = 1
       /\ "x11Msg" \in Range(trace[ch]) => x11[ch] /\ unlocks[ch] = 1
  /\ \A c \in Conns :
       pc[c] \in {"welcome", "table", "blacklistMsg", "dsaMsg", "weakMsg"}
         => ENABLED ServeStep(c)

\* A finished report of a blacklisted DSA key with agent forwarding
\* requested: every step but the weak-length paragraph and the x11 warning.
C10_Witness ==
  \E ch \in Chans :
    trace[ch] = <<"welcome", "table", "blacklistMsg", "dsaMsg", "lock",
                  "agentMsg", "close">>

\* The report of channel ch has gone past the three paragraphs.
PastParagraphs(ch) == Pos(ch) > Rank("weakMsg")

\* The 1024-bit RSA key and the blacklisted 256-bit ECDSA key.
WeakThenListed ==
  << [type |-> KeyAlgoRSA, bitlen |-> 1024, listed |-> FALSE],
     [type |-> KeyAlgoECDSA256, bitlen |-> 256, listed |-> TRUE] >>

\* C11: once the report of a channel is past the three paragraphs, the
\* blacklist paragraph is written iff some key of the session is on the
\* blacklist, the DSA paragraph iff some key is DSA and the weak-length
\* paragraph iff some key is RSA with a length under 2048 bits in its row,
\* whatever issue the rows of those keys show; for a 1024-bit RSA key
\* followed by a blacklisted 256-bit ECDSA key the rows read WEAK KEY LENGTH
\* and BLACKLISTED and the blacklist and weak-length paragraphs are written.
C11_FlagsIndependent ==
  \A ch \in Chans :
    LET ks == offered[chConn[ch]]
        rows == local[ch].rows
        Written(e) == e \in Range(trace[ch])
    IN PastParagraphs(ch) =>
         /\ Len(rows) = Len(ks)
         /\ Written("blacklistMsg") <=> \E i \in 1..Len(ks) : ks[i].listed
         /\ Written("dsaMsg") <=> \E i \in 1..Len(ks) : ks[i].type = KeyAlgoDSA
         /\ Written("weakMsg") <=>
              \E i \in 1..Len(ks) : ks[i].type = KeyAlgoRSA /\ rows[i].bits < 2048
         /\ ks = WeakThenListed =>
              /\ rows[1].issues = "WEAK KEY LENGTH"
              /\ rows[2].issues = "BLACKLISTED"
              /\ Written("blacklistMsg") /\ Written("weakMsg") /\ ~Written("dsaMsg")

\* The report of the 1024-bit RSA key followed by the blacklisted ECDSA key
\* has both paragraphs, and the key that sets the blacklist flag is not RSA.
C11_Witness ==
  \E ch \in Chans :
    /\ PastParagraphs(ch)
    /\ offered[chConn[ch]] = WeakThenListed
    /\ local[ch].rows[2].issues = "BLACKLISTED"
    /\ "blacklistMsg" \in Range(trace[ch])
    /\ "weakMsg" \in Range(trace[ch])

\* C12: once a write to a channel has failed, no later report step is made
\* on that channel: nothing more is written to it, the latch is not waited
\* on and the loop goes on to the next channel at once.
C12_WriteFailureTerminal ==
  [][\A ch \in Chans : wfail[ch] => trace'[ch] = trace[ch]]_vars

\* BitLen() fails on a key of this material.
LengthFails(key) == BitLen([key |-> key, blacklisted |-> FALSE]).err

\* The issue of a key whose length is not known: the length tells nothing.
PriorityUnknownLength(key) ==
  IF key.listed THEN "BLACKLISTED"
  ELSE IF key.type = KeyAlgoDSA THEN "DSA KEY"
  ELSE "No known issues"

\* C13: the table has a row for every harvested key, also when BitLen()
\* fails on some of them, and a key whose length could not be derived is
\* classified without a length: its row never reads WEAK KEY LENGTH on the
\* strength of the failed computation, and it does not bring the
\* weak-length paragraph about.
C13_UnknownLengthNotMeasured ==
  \A ch \in Chans :
    LET ks == offered[chConn[ch]]
        rows == local[ch].rows
    IN /\ "table" \in Range(trace[ch]) =>
            /\ Len(rows) = Len(ks)
            /\ \A i \in 1..Len(ks) :
                 LengthFails(ks[i]) => rows[i].issues = PriorityUnknownLength(ks[i])
       /\ PastParagraphs(ch) =>
            ("weakMsg" \in Range(trace[ch]) <=>
               \E i \in 1..Len(ks) : /\ ~LengthFails(ks[i])
                                        /\ ks[i].type = KeyAlgoRSA
                                        /\ ks[i].bitlen < 2048)

\* The steps of the request goroutine of channel ch.
ReqStep(ch) == ReqHandle(ch) \/ ReqReply(ch) \/ ReqExit(ch)

\* C14: once the connection is closed no task of it is left blocked: the
\* request goroutine of every accepted channel can go on until it has
\* ended, and serve's goroutine can go on until it has returned, also when
\* it is at the Lock of the latch.
C14_CloseUnblocks ==
  /\ \A ch \in Chans :
       chState[ch] = "open" /\ ~connOpen[chConn[ch]] /\ reqPc[ch] # "exited"
         => ENABLED ReqStep(ch)
  /\ \A c \in Conns :
       Admitted(c) /\ ~connOpen[c] /\ pc[c] # "done" => ENABLED ServeStep(c)

\* Channel ch was rejected or its accept failed.
Skipped(ch) == chState[ch] \in {"rejected", "failed"}

\* Nothing of the channel phase has been set up for channel ch.
Untouched(ch) ==
  /\ timeout[ch] = "none"
  /\ reqLock[ch] = "none"
  /\ reqPc[ch] = "none"
  /\ trace[ch] = <<>>
  /\ unlocks[ch] = 0

\* C15: a channel that is not a session is rejected and never accepted, a
\* session channel whose accept fails is skipped; for neither is a timer
\* armed, a request goroutine started or anything written; the step that
\* skips a channel takes it off chans and leaves serve at the head of the
\* loop, where it is never stuck while a channel is waiting.
C15_SkippedChannelsUntouched ==
  /\ [](\A ch \in Chans :
          /\ chType[ch] \notin {"session", "none"}
               => chState[ch] \in {"pending", "rejected"}
          /\ chState[ch] = "failed" => chType[ch] = "session"
          /\ Skipped(ch) \/ chState[ch] = "pending" => Untouched(ch)
          /\ Skipped(ch) => /\ ch \notin Range(chans[chConn[ch]])
                            /\ cur[chConn[ch]] # ch)
  /\ [](\A c \in Conns :
          pc[c] = "loop" /\ chans[c] # <<>> => ENABLED ServeStep(c))
  /\ [][\A ch \in Chans :
          ~Skipped(ch) /\ Skipped(ch)'
            => /\ chState[ch] = "pending"
               /\ pc[chConn[ch]] = "loop" /\ pc'[chConn[ch]] = "loop"
               /\ chans[chConn[ch]] = <<ch>> \o chans'[chConn[ch]]]_vars

\* A channel that is not a session was rejected and the next channel of the
\* same connection is being served.
C15_Witness ==
  \E ch1, ch2 \in Chans :
    /\ chState[ch1] = "rejected"
    /\ chConn[ch2] = chConn[ch1]
    /\ chState[ch2] = "open"
    /\ trace[ch2] # <<>>

\* The forwarding requests handled on channel ch at any time.
Handled(ch) == handled[ch].early \cup handled[ch].late

\* C16: a forwarding request that was handled on a channel before the
\* channel's first shell or pty-req request and before the timer fired has
\* its flag set, and once the report has come past the warning of that flag
\* (so before the Close) the warning is written; a warning whose request
\* was never handled on the channel is never written.
C16_EarlyForwardingWarned ==
  \A ch \in Chans :
    /\ "auth-agent-req@openssh.com" \in handled[ch].early
         => /\ agentFwd[ch]
            /\ Pos(ch) > Rank("agentMsg") => "agentMsg" \in Range(trace[ch])
    /\ "x11-req" \in handled[ch].early
         => /\ x11[ch]
            /\ Pos(ch) > Rank("x11Msg") => "x11Msg" \in Range(trace[ch])
    /\ "auth-agent-req@openssh.com" \notin Handled(ch)
         => ~agentFwd[ch] /\ "agentMsg" \notin Range(trace[ch])
    /\ "x11-req" \notin Handled(ch)
         => ~x11[ch] /\ "x11Msg" \notin Range(trace[ch])

\* An x11-req was handled while the timer was armed, no shell or pty-req
\* came, the timer opened the latch and the closed channel has the warning.
C16_Witness ==
  \E ch \in Chans :
    /\ chState[ch] = "closed"
    /\ "x11-req" \in handled[ch].early
    /\ timeout[ch] = "done"
    /\ "x11Msg" \in Range(trace[ch])
    /\ "agentMsg" \notin Range(trace[ch])

\* The session ids that have an entry before and after the step.
Kept == DOMAIN sessions \cap DOMAIN sessions'

\* The step is the blacklist marking of line 96 for connection c.
MarkStep(c) == pc[c] = "welcome" /\ pc'[c] = "table"

AcceptStep(ch) == chState[ch] = "pending" /\ chState'[ch] = "open"

\* The step is the request goroutine of ch handling a request of type t.
HandleStep(ch, t) ==
  /\ reqPc[ch] = "recv" /\ reqPc'[ch] = "reply"
  /\ Head(inq[ch]).type = t

\* C18: the flags of a channel are false when it is accepted; a flag that is
\* set stays set through every later step (requests, timer, report, close);
\* a flag changes only when the request goroutine of that very channel
\* handles the request of that flag, so a flag is set on a channel only by a
\* request handled on it, never by one of another channel.
C18_FlagsMonotonePerChannel ==
  /\ [][\A ch \in Chans :
          /\ AcceptStep(ch) => ~agentFwd'[ch] /\ ~x11'[ch]
          /\ agentFwd[ch] /\ ~AcceptStep(ch) => agentFwd'[ch]
          /\ x11[ch] /\ ~AcceptStep(ch) => x11'[ch]
          /\ agentFwd'[ch] # agentFwd[ch]
               => HandleStep(ch, "auth-agent-req@openssh.com")
          /\ x11'[ch] # x11[ch] => HandleStep(ch, "x11-req")]_vars
  /\ [](\A ch \in Chans :
          /\ agentFwd[ch] => "auth-agent-req@openssh.com" \in Handled(ch)
          /\ x11[ch] => "x11-req" \in Handled(ch)
          /\ chState[ch] # "open" /\ chState[ch] # "closed"
               => ~agentFwd[ch] /\ ~x11[ch])

\* The first channel of a connection has its agent-forwarding flag set, and
\* the report of the next channel of the same connection has read its own
\* flag as false and written no warning.
C18_Witness ==
  \E ch1, ch2 \in Chans :
    /\ ch1 # ch2
    /\ chConn[ch1] = chConn[ch2]
    /\ agentFwd[ch1]
    /\ Pos(ch2) > Rank("agentMsg")
    /\ ~agentFwd[ch2]
    /\ "agentMsg" \notin Range(trace[ch2])

\* C19: with serve's goroutine scheduled and the timer firing, every channel
\* that is accepted is closed by the server in the end, whatever requests
\* the client sends or fails to send; the Close of a channel comes last in
\* its report and after the Lock of the latch has returned, which an Unlock
\* came before.
C19_AcceptedChannelClosed ==
  /\ \A ch \in Chans : (chState[ch] = "open") ~> (chState[ch] = "closed")
  /\ [](\A ch \in Chans :
          /\ chState[ch] = "closed" <=> "close" \in Range(trace[ch])
          /\ chState[ch] = "closed"
               => /\ trace[ch][Len(trace[ch])] = "close"
                  /\ "lock" \in Range(trace[ch])
                  /\ unlocks[ch] = 1)

\* A channel was closed after two pty-req requests were answered on it.
C19_Witness ==
  \E ch \in Chans :
    /\ chState[ch] = "closed"
    /\ replies[ch] = <<TRUE, TRUE>>
    /\ timeout[ch] = "stopped"

\* The step changes the registry entry of session id sid.
EntryChanges(sid) ==
  \/ (sid \in DOMAIN sessions) # (sid \in DOMAIN sessions')
  \/ Lookup(sessions', sid) # Lookup(sessions, sid)

\* The step is a step of connection c: of its handshake or of its serve.
StepOf(c) == pc'[c] # pc[c] \/ offered'[c] # offered[c]

\* C20: with connections served concurrently, the rows of a report are the
\* keys offered on the report's own connection; a step changes the registry
\* entry of a session id only if it is a step of the connection of that id;
\* and the return of serve removes the entry of its own connection and
\* leaves every other entry as it is.
C20_RegistryIsolation ==
  /\ [](\A ch \in Chans :
          "table" \in Range(trace[ch])
            => [i \in 1..Len(local[ch].rows) |-> local[ch].rows[i].fingerprint]
                 = offered[chConn[ch]])
  /\ [][\A c \in Conns :
          /\ EntryChanges(SessionID(c)) => StepOf(c)
          /\ pc[c] = "loop" /\ pc'[c] = "done"
               => /\ SessionID(c) \notin DOMAIN sessions'
                  /\ \A d \in Conns \ {c} :
                       /\ ~EntryChanges(SessionID(d))
                       /\ pc[d] \notin {"idle", "done"}
                            => Material(Lookup(sessions', SessionID(d))) = offered[d]]_vars

\* Two connections have each offered a key; the second was admitted and
\* closed and its serve has returned: its entry is gone and the entry of the
\* first, still in its handshake, holds the key the first offered.
C20_Witness ==
  /\ pc[1] = "handshake"
  /\ pc[2] = "done" /\ Admitted(2)
  /\ Len(offered[1]) = 1 /\ Len(offered[2]) = 1
  /\ offered[1] # offered[2]
  /\ SessionID(2) \notin DOMAIN sessions
  /\ Material(Lookup(sessions, SessionID(1))) = offered[1]

====
